---- MODULE Spec2Model ----
(***************************************************************************)
(* Scraping orchestration engine of src/app.py: the job table, the        *)
(* per-job background thread running the six-stage pipeline, the URL      *)
(* normalizer and the HTTP handlers that create, poll and clean up jobs.  *)
(*                                                                         *)
(* Strings the code inspects character by character (URLs) are sequences  *)
(* of one-character strings; every other string is a TLA+ string.         *)
(***************************************************************************)
EXTENDS Integers, Sequences, FiniteSets, TLC

\* ------------------------------------------------------------------ bounds
MaxJobs == 2
MaxTime == 1
MaxTokens == 3

\* --------------------------------------------------------------- variables
VARIABLES
    scraping_jobs,   \* orchestrator.scraping_jobs: job_id -> job record
    results,         \* the 'results' dict objects, by object reference
    statistics,      \* the 'statistics' dict objects, by object reference
    thread,          \* one background thread (run_scraping) per created job
    next_id,         \* number of job ids generated so far
    clock,           \* datetime.utcnow(), in hours
    response,        \* reply of the request handler that has just run
    nz               \* harness applying normalize_url to a drawn input

vars == <<scraping_jobs, results, statistics, thread, next_id, clock, response, nz>>

\* ------------------------------------------------------ character strings
HTTPS == <<"h", "t", "t", "p", "s", ":", "/", "/">>
HTTP == <<"h", "t", "t", "p", ":", "/", "/">>
WWW == <<"w", "w", "w", ".">>
SLASH == <<"/">>
QMARK == <<"?">>

\* str.lower() on the letters that occur in the modelled inputs
LowerChar(c) ==
    CASE c = "A" -> "a"
      [] c = "H" -> "h"
      [] c = "T" -> "t"
      [] c = "P" -> "p"
      [] c = "S" -> "s"
      [] c = "W" -> "w"
      [] OTHER -> c

Lower(s) == [i \in 1..Len(s) |-> LowerChar(s[i])]

StartsWith(s, p) == Len(s) >= Len(p) /\ SubSeq(s, 1, Len(p)) = p

EndsWith(s, p) == Len(s) >= Len(p) /\ SubSeq(s, Len(s) - Len(p) + 1, Len(s)) = p

\* str.replace(old, ''): every non-overlapping occurrence, left to right
RECURSIVE Replace(_, _)
Replace(s, old) ==
    IF Len(s) < Len(old) THEN s
    ELSE IF StartsWith(s, old)
         THEN Replace(SubSeq(s, Len(old) + 1, Len(s)), old)
         ELSE <<Head(s)>> \o Replace(Tail(s), old)

Contains(s, c) == \E i \in 1..Len(s) : s[i] = c

\* s.split(c)[0]: the part before the first c
BeforeFirst(s, c) ==
    LET i == CHOOSE k \in 1..Len(s) : s[k] = c /\ \A m \in 1..(k - 1) : s[m] # c
    IN  SubSeq(s, 1, i - 1)

\* ScrapingOrchestrator.normalize_url
normalize_url(url) ==
    IF url = <<>> THEN <<>>
    ELSE LET u1 == Replace(Replace(Lower(url), HTTPS), HTTP)
             u2 == IF StartsWith(u1, WWW) THEN SubSeq(u1, 5, Len(u1)) ELSE u1
             u3 == IF EndsWith(u2, SLASH) THEN SubSeq(u2, 1, Len(u2) - 1) ELSE u2
         IN  IF Contains(u3, "?") THEN BeforeFirst(u3, "?") ELSE u3

\* ---------------------------------------------- normalizer harness inputs
Tokens == {HTTPS, HTTP, WWW, SLASH, QMARK, <<"a">>, <<"A">>, <<"h", "t">>, <<"t", "p", ":", "/", "/">>}

RECURSIVE TokenStrings(_)
TokenStrings(n) ==
    IF n = 0 THEN {<<>>}
    ELSE LET shorter == TokenStrings(n - 1)
         IN  shorter \cup {s \o t : s \in shorter, t \in Tokens}

URLInputs == TokenStrings(MaxTokens)

NzIdle == [step |-> "idle", input |-> <<>>, once |-> <<>>, twice |-> <<>>]

\* ------------------------------------------------------------- data model
Sources == <<"google", "trustpilot", "reddit", "youtube", "tiktok", "internet">>

SourceSet == {Sources[i] : i \in 1..Len(Sources)}

Names == {"Acme", "Beta"}

\* a field missing from the request's JSON body
Absent == "<absent>"

\* an optional locator: missing, empty, or a URL
Locators == {Absent, "", "url"}

Site == <<"s", ".", "c", "o">>

\* the review dicts the adapters can return
ReviewTable ==
    << [url_user |-> HTTPS \o Site \o <<"/", "1">>, review_url |-> <<>>, id_review |-> "a"],
       [url_user |-> <<>>, review_url |-> HTTP \o WWW \o Site \o <<"/", "1", "/">>, id_review |-> "b"],
       [url_user |-> <<>>, review_url |-> <<>>, id_review |-> ""],
       [url_user |-> Site \o <<"/", "2">>, review_url |-> Site \o <<"/", "2">>, id_review |-> ""],
       [url_user |-> <<>>, review_url |-> <<>>, id_review |-> "c"] >>

Reviews == 1..Len(ReviewTable)

\* review.get('url_user', '') or review.get('review_url', '')
ReviewUrl(r) ==
    IF ReviewTable[r].url_user # <<>> THEN ReviewTable[r].url_user ELSE ReviewTable[r].review_url

NormalizedUrl(r) == normalize_url(ReviewUrl(r))

ReviewId(r) == ReviewTable[r].id_review

EmptyResults == [s \in SourceSet |-> <<>>]

EmptyStatistics == [s \in SourceSet \cup {"total_unique"} |-> 0]

\* a job record inserted with the status word of the reply ('started')
NewJob_Started(name, now, ref) ==
    [status |-> "started", progress |-> 0, total_reviews |-> 0, start_time |-> now,
     business_name |-> name, results |-> ref, statistics |-> ref,
     keys |-> {}, end_time |-> 0, error |-> "", all_reviews |-> <<>>]

\* the job record start_scraping inserts; keys holds the optional keys present
NewJob(name, now, ref) ==
    [status |-> "running", progress |-> 0, total_reviews |-> 0, start_time |-> now,
     business_name |-> name, results |-> ref, statistics |-> ref,
     keys |-> {}, end_time |-> 0, error |-> "", all_reviews |-> <<>>]

NoResult == [statistics |-> 0, results |-> 0]

\* the frame of run_scraping / scrape_all_sources at its first instruction
NewThread(name, burl, gurl, turl) ==
    [pc |-> "start", business_name |-> name, business_url |-> burl,
     google_maps_url |-> gurl, trustpilot_url |-> turl,
     job_id |-> 0, it_used |-> 0, it_pos |-> 0, stage |-> 1, total_steps |-> 6,
     description |-> "", all_urls |-> {}, all_review_ids |-> {}, all_reviews |-> <<>>,
     result |-> NoResult, exc |-> ""]

\* a finished thread: its frame is gone
DoneThread == [NewThread("", "", "", "") EXCEPT !.pc = "done"]

NoResponse == [op |-> "none"]

Put(f, k, v) == [x \in DOMAIN f \cup {k} |-> IF x = k THEN v ELSE f[x]]

Remove(f, S) == [x \in DOMAIN f \ S |-> f[x]]

Min(S) == CHOOSE x \in S : \A y \in S : x <= y

\* objects still referenced from the job table or from a thread's return value
LiveRefs(jobs, threads) ==
    {jobs[j].results : j \in DOMAIN jobs} \cup {jobs[j].statistics : j \in DOMAIN jobs}
        \cup {threads[t].result.results : t \in DOMAIN threads}
        \cup {threads[t].result.statistics : t \in DOMAIN threads}

\* the locator that decides whether stage k runs
StageLocator(th, k) ==
    CASE k = 1 -> th.google_maps_url
      [] k = 2 -> th.trustpilot_url
      [] OTHER -> th.business_url

\* total_steps as computed after stage 1
TotalSteps(th) ==
    6 - (IF th.google_maps_url = "" THEN 1 ELSE 0)
      - (IF th.trustpilot_url = "" THEN 1 ELSE 0)
      - (IF th.business_url = "" THEN 4 ELSE 0)

\* int((completed_steps / total_steps) * 100), total_steps > 0
ProgressValue(completed_steps, total_steps) == (completed_steps * 100) \div total_steps

\* ------------------------------------------------------------------- Init
Init ==
    /\ scraping_jobs = <<>>
    /\ results = <<>>
    /\ statistics = <<>>
    /\ thread = <<>>
    /\ next_id = 0
    /\ clock = 0
    /\ response = NoResponse
    /\ nz = NzIdle

\* ------------------------------------------- background thread of one job
\* Each action is one step of run_scraping / scrape_all_sources between two
\* accesses to the shared job table; t is the job_id the closure captured.

ThreadFrame == /\ response' = NoResponse
               /\ UNCHANGED <<next_id, clock, nz>>

\* an exception escaping scrape_all_sources lands in run_scraping's handler: the
\* frame of scrape_all_sources is gone, the closure's variables remain
Raised(th, msg) ==
    [NewThread(th.business_name, th.business_url, th.google_maps_url, th.trustpilot_url)
        EXCEPT !.pc = "except", !.exc = msg]

\* the statement after stage k: a progress update for k < 6, the final block after stage 6
AfterStage(th) ==
    IF th.stage < 6 THEN [th EXCEPT !.pc = "progress"] ELSE [th EXCEPT !.pc = "progress_100"]

\* the stages taken from the last one to the first
EnterStage_Reversed(th, k) ==
    IF StageLocator(th, 7 - k) # ""
    THEN [th EXCEPT !.pc = "call", !.stage = 7 - k]
    ELSE AfterStage([th EXCEPT !.stage = k])

\* control reaches "if <locator>:" of stage k: the adapter call when the locator is
\* set, else (the stage is skipped, which only prints) the statement after the stage
EnterStage(th, k) ==
    IF StageLocator(th, k) # ""
    THEN [th EXCEPT !.pc = "call", !.stage = k]
    ELSE AfterStage([th EXCEPT !.stage = k])

\* for jid, job in self.scraping_jobs.items(): the iterator is created
LookupBegin(t) ==
    /\ thread[t].pc = "start"
    /\ thread' = [thread EXCEPT ![t].pc = "lookup",
                                ![t].it_used = Cardinality(DOMAIN scraping_jobs),
                                ![t].it_pos = 0]
    /\ UNCHANGED <<scraping_jobs, results, statistics>>
    /\ ThreadFrame

\* one iteration of the lookup loop (dict iteration is in insertion order, which
\* is job_id order); an exhausted loop returns None, on which update(None) raises
LookupNext(t) ==
    LET th == thread[t]
        rest == {j \in DOMAIN scraping_jobs : j > th.it_pos}
        j == Min(rest)
    IN  /\ th.pc = "lookup"
        /\ thread' = [thread EXCEPT ![t] =
              IF Cardinality(DOMAIN scraping_jobs) # th.it_used
              THEN Raised(th, "dictionary changed size during iteration")
              ELSE IF rest = {}
              THEN IF t \in DOMAIN scraping_jobs
                   THEN Raised(th, "'NoneType' object is not iterable")
                   ELSE Raised(th, "KeyError")
              ELSE IF /\ scraping_jobs[j].status = "running"
                      /\ scraping_jobs[j].business_name = th.business_name
              THEN IF th.business_url # ""
                   THEN [th EXCEPT !.job_id = j, !.pc = "describe"]
                   ELSE EnterStage([th EXCEPT !.job_id = j, !.description = "default"], 1)
              ELSE [th EXCEPT !.it_pos = j]]
        /\ UNCHANGED <<scraping_jobs, results, statistics>>
        /\ ThreadFrame

\* the outcomes of the description extractor: a text, or an exception that the
\* pipeline replaces by its fallback text
Descriptions == {"extracted", "fallback"}

\* the outcome offered where two jobs run side by side
ConcurrentDescriptions == {"extracted"}

\* a failure of the extractor that is not caught
GetDescription_Fatal(t, texts) ==
    /\ thread[t].pc = "describe"
    /\ \E text \in texts :
           thread' = [thread EXCEPT ![t] =
              IF text = "fallback"
              THEN Raised(thread[t], "description")
              ELSE EnterStage([thread[t] EXCEPT !.description = text], 1)]
    /\ UNCHANGED <<scraping_jobs, results, statistics>>
    /\ ThreadFrame

\* get_business_description_from_url returns a text ("extracted"), or raises and
\* the except clause synthesizes one ("fallback"); either value only reaches the
\* adapters' arguments
GetDescription(t, texts) ==
    /\ thread[t].pc = "describe"
    /\ \E text \in texts :
           thread' = [thread EXCEPT ![t] = EnterStage([thread[t] EXCEPT !.description = text], 1)]
    /\ UNCHANGED <<scraping_jobs, results, statistics>>
    /\ ThreadFrame

\* the adapter of the stage is invoked: it returns a list or raises
AdapterCall(t) ==
    LET th == thread[t]
    IN  /\ th.pc = "call"
        /\ \/ thread' = [thread EXCEPT ![t].pc = "loop"]
           \/ thread' = [thread EXCEPT ![t] = AfterStage(th)]
        /\ UNCHANGED <<scraping_jobs, results, statistics>>
        /\ ThreadFrame

\* the duplicate test with the URL only compared when the key is not empty
Admits_SkipEmptyUrl(th, r) ==
    /\ NormalizedUrl(r) = <<>> \/ NormalizedUrl(r) \notin th.all_urls
    /\ ReviewId(r) \notin th.all_review_ids

\* the duplicate test with the id only compared when it is not empty
Admits_SkipEmptyId(th, r) ==
    /\ NormalizedUrl(r) \notin th.all_urls
    /\ ReviewId(r) = "" \/ ReviewId(r) \notin th.all_review_ids

\* normalized_url not in all_urls and review_id not in all_review_ids
Admits(th, r) == NormalizedUrl(r) \notin th.all_urls /\ ReviewId(r) \notin th.all_review_ids

\* the loop of every stage appending to the list of the first source
ProcessReview_CopyPaste(t, r) ==
    LET th == thread[t]
        src == Sources[1]
        admitted == [th EXCEPT !.all_urls = @ \cup {NormalizedUrl(r)},
                               !.all_review_ids = @ \cup {ReviewId(r)},
                               !.all_reviews = Append(@, r)]
    IN  /\ th.pc = "loop"
        /\ IF ~Admits(th, r)
           THEN UNCHANGED <<thread, results>>
           ELSE IF th.job_id \in DOMAIN scraping_jobs
           THEN /\ thread' = [thread EXCEPT ![t] = admitted]
                /\ results' = [results EXCEPT ![scraping_jobs[th.job_id].results][src] = Append(@, r)]
           ELSE /\ thread' = [thread EXCEPT ![t] = AfterStage(admitted)]
                /\ UNCHANGED results
        /\ UNCHANGED <<scraping_jobs, statistics>>
        /\ ThreadFrame

\* one iteration of "for review in <adapter's list>": the duplicate check and,
\* on admission, the append to results[source] of the job found by the lookup
ProcessReview(t, r) ==
    LET th == thread[t]
        src == Sources[th.stage]
        admitted == [th EXCEPT !.all_urls = @ \cup {NormalizedUrl(r)},
                               !.all_review_ids = @ \cup {ReviewId(r)},
                               !.all_reviews = Append(@, r)]
    IN  /\ th.pc = "loop"
        /\ IF ~Admits(th, r)
           THEN UNCHANGED <<thread, results>>
           ELSE IF th.job_id \in DOMAIN scraping_jobs
           THEN /\ thread' = [thread EXCEPT ![t] = admitted]
                /\ results' = [results EXCEPT ![scraping_jobs[th.job_id].results][src] = Append(@, r)]
           ELSE /\ thread' = [thread EXCEPT ![t] = AfterStage(admitted)]
                /\ UNCHANGED results
        /\ UNCHANGED <<scraping_jobs, statistics>>
        /\ ThreadFrame

\* the list is exhausted: statistics[source] = len(results[source])
EndStage(t) ==
    LET th == thread[t]
        src == Sources[th.stage]
    IN  /\ th.pc = "loop"
        /\ thread' = [thread EXCEPT ![t] = AfterStage(th)]
        /\ IF th.job_id \in DOMAIN scraping_jobs
           THEN statistics' = [statistics EXCEPT ![scraping_jobs[th.job_id].statistics][src] =
                                   Len(results[scraping_jobs[th.job_id].results][src])]
           ELSE UNCHANGED statistics
        /\ UNCHANGED <<scraping_jobs, results>>
        /\ ThreadFrame

\* progress = int((completed_steps / total_steps) * 100) after stages 1..5
UpdateProgress(t) ==
    LET th == thread[t]
        total == IF th.stage = 1 THEN TotalSteps(th) ELSE th.total_steps
    IN  /\ th.pc = "progress"
        /\ IF total = 0
           THEN /\ thread' = [thread EXCEPT ![t] = Raised(th, "division by zero")]
                /\ UNCHANGED scraping_jobs
           ELSE IF th.job_id \notin DOMAIN scraping_jobs
           THEN /\ thread' = [thread EXCEPT ![t] = Raised(th, "KeyError")]
                /\ UNCHANGED scraping_jobs
           ELSE /\ thread' = [thread EXCEPT ![t] =
                                  EnterStage([th EXCEPT !.total_steps = total], th.stage + 1)]
                /\ scraping_jobs' = [scraping_jobs EXCEPT ![th.job_id].progress =
                                         ProgressValue(th.stage, total)]
        /\ UNCHANGED <<results, statistics>>
        /\ ThreadFrame

\* one write of the final block to the job found by the lookup
FinalWrite(t, at, next, jobs2, stats2) ==
    LET th == thread[t]
    IN  /\ th.pc = at
        /\ IF th.job_id \notin DOMAIN scraping_jobs
           THEN /\ thread' = [thread EXCEPT ![t] = Raised(th, "KeyError")]
                /\ UNCHANGED <<scraping_jobs, statistics>>
           ELSE /\ thread' = [thread EXCEPT ![t].pc = next]
                /\ scraping_jobs' = jobs2
                /\ statistics' = stats2
        /\ UNCHANGED results
        /\ ThreadFrame

\* self.scraping_jobs[job_id]['progress'] = 100
SetProgress100(t) ==
    FinalWrite(t, "progress_100", "total_unique",
               [scraping_jobs EXCEPT ![thread[t].job_id].progress = 100], statistics)

\* statistics['total_unique'] = len(all_reviews)
SetTotalUnique(t) ==
    FinalWrite(t, "total_unique", "total_reviews", scraping_jobs,
               [statistics EXCEPT ![scraping_jobs[thread[t].job_id].statistics]["total_unique"] =
                    Len(thread[t].all_reviews)])

\* self.scraping_jobs[job_id]['total_reviews'] = total_unique
SetTotalReviews(t) ==
    FinalWrite(t, "total_reviews", "status",
               [scraping_jobs EXCEPT ![thread[t].job_id].total_reviews = Len(thread[t].all_reviews)],
               statistics)

\* self.scraping_jobs[job_id]['status'] = 'completed'
SetCompleted(t) ==
    FinalWrite(t, "status", "end_time",
               [scraping_jobs EXCEPT ![thread[t].job_id].status = "completed"], statistics)

\* self.scraping_jobs[job_id]['end_time'] = datetime.utcnow()
SetEndTime(t) ==
    FinalWrite(t, "end_time", "return",
               [scraping_jobs EXCEPT ![thread[t].job_id].end_time = clock,
                                     ![thread[t].job_id].keys = @ \cup {"end_time"}],
               statistics)

\* the return statement reads the statistics and results objects of the job
ReturnResult(t) ==
    LET th == thread[t]
    IN  /\ th.pc = "return"
        /\ thread' = [thread EXCEPT ![t] =
              IF th.job_id \notin DOMAIN scraping_jobs
              THEN Raised(th, "KeyError")
              ELSE [th EXCEPT !.pc = "update",
                              !.result = [statistics |-> scraping_jobs[th.job_id].statistics,
                                          results |-> scraping_jobs[th.job_id].results]]]
        /\ UNCHANGED <<scraping_jobs, results, statistics>>
        /\ ThreadFrame

\* run_scraping storing the result with an assignment, which creates the entry
UpdateJob_Assign(t) ==
    LET th == thread[t]
        old == IF t \in DOMAIN scraping_jobs THEN scraping_jobs[t]
               ELSE NewJob(th.business_name, clock, th.result.results)
        jobs2 == Put(scraping_jobs, t,
                     [old EXCEPT !.status = "completed",
                                 !.business_name = th.business_name,
                                 !.total_reviews = Len(th.all_reviews),
                                 !.statistics = th.result.statistics,
                                 !.results = th.result.results,
                                 !.all_reviews = th.all_reviews,
                                 !.keys = @ \cup {"all_reviews"}])
    IN  /\ th.pc = "update"
        /\ thread' = [thread EXCEPT ![t] = DoneThread]
        /\ scraping_jobs' = jobs2
        /\ results' = Remove(results, DOMAIN results \ LiveRefs(jobs2, thread'))
        /\ statistics' = Remove(statistics, DOMAIN statistics \ LiveRefs(jobs2, thread'))
        /\ ThreadFrame

\* run_scraping: orchestrator.scraping_jobs[job_id].update(result), job_id the closure's
UpdateJob(t) ==
    LET th == thread[t]
        jobs2 == [scraping_jobs EXCEPT ![t].status = "completed",
                                       ![t].business_name = th.business_name,
                                       ![t].total_reviews = Len(th.all_reviews),
                                       ![t].statistics = th.result.statistics,
                                       ![t].results = th.result.results,
                                       ![t].all_reviews = th.all_reviews,
                                       ![t].keys = @ \cup {"all_reviews"}]
    IN  /\ th.pc = "update"
        /\ IF t \notin DOMAIN scraping_jobs
           THEN /\ thread' = [thread EXCEPT ![t] = Raised(th, "KeyError")]
                /\ UNCHANGED <<scraping_jobs, results, statistics>>
           ELSE /\ thread' = [thread EXCEPT ![t] = DoneThread]
                /\ scraping_jobs' = jobs2
                /\ results' = Remove(results, DOMAIN results \ LiveRefs(jobs2, thread'))
                /\ statistics' = Remove(statistics, DOMAIN statistics \ LiveRefs(jobs2, thread'))
        /\ ThreadFrame

\* an exception handler that only logs: the job keeps its status
HandleException_LogOnly(t) ==
    /\ thread[t].pc = "except"
    /\ thread' = [thread EXCEPT ![t] = DoneThread]
    /\ UNCHANGED <<scraping_jobs, results, statistics>>
    /\ ThreadFrame

\* except Exception: if job_id in scraping_jobs: status = 'failed'
HandleException(t) ==
    /\ thread[t].pc = "except"
    /\ IF t \in DOMAIN scraping_jobs
       THEN /\ thread' = [thread EXCEPT ![t].pc = "except_error"]
            /\ scraping_jobs' = [scraping_jobs EXCEPT ![t].status = "failed"]
       ELSE /\ thread' = [thread EXCEPT ![t] = DoneThread]
            /\ UNCHANGED scraping_jobs
    /\ UNCHANGED <<results, statistics>>
    /\ ThreadFrame

\* ... scraping_jobs[job_id]['error'] = str(e); the thread ends either way
SetError(t) ==
    /\ thread[t].pc = "except_error"
    /\ thread' = [thread EXCEPT ![t] = DoneThread]
    /\ IF t \in DOMAIN scraping_jobs
       THEN scraping_jobs' = [scraping_jobs EXCEPT ![t].error = thread[t].exc,
                                                   ![t].keys = @ \cup {"error"}]
       ELSE UNCHANGED scraping_jobs
    /\ UNCHANGED <<results, statistics>>
    /\ ThreadFrame

ThreadStep(t, offered, texts) ==
    \/ LookupBegin(t)
    \/ LookupNext(t)
    \/ GetDescription(t, texts)
    \/ AdapterCall(t)
    \/ \E r \in offered : ProcessReview(t, r)
    \/ EndStage(t)
    \/ UpdateProgress(t)
    \/ SetProgress100(t)
    \/ SetTotalUnique(t)
    \/ SetTotalReviews(t)
    \/ SetCompleted(t)
    \/ SetEndTime(t)
    \/ ReturnResult(t)
    \/ UpdateJob(t)
    \/ HandleException(t)
    \/ SetError(t)

\* -------------------------------------------------------- request handlers
\* Each handler runs as one step against the job table.

\* request bodies: every shape of the four fields
Requests ==
    [business_name : Names \cup {Absent, ""}, business_url : Locators,
     google_maps_url : Locators, trustpilot_url : Locators]

\* the bodies start_scraping accepts
ValidRequests ==
    {data \in Requests : /\ data.business_name \notin {Absent, ""}
                         /\ Absent \notin {data.business_url, data.google_maps_url, data.trustpilot_url}}

\* POST /scrape without the validation of business_name
StartScraping_Unvalidated(data) ==
    LET job_id == next_id + 1
    IN  IF Absent \in {data.business_name, data.business_url,
                       data.google_maps_url, data.trustpilot_url}
        THEN /\ response' = [op |-> "scrape", code |-> 500, job_id |-> 0]
             /\ UNCHANGED <<scraping_jobs, results, statistics, thread, next_id, clock, nz>>
        ELSE /\ next_id < MaxJobs
             /\ next_id' = job_id
             /\ scraping_jobs' = Put(scraping_jobs, job_id, NewJob(data.business_name, clock, job_id))
             /\ results' = Put(results, job_id, EmptyResults)
             /\ statistics' = Put(statistics, job_id, EmptyStatistics)
             /\ thread' = Put(thread, job_id,
                              NewThread(data.business_name, data.business_url,
                                        data.google_maps_url, data.trustpilot_url))
             /\ response' = [op |-> "scrape", code |-> 200, job_id |-> job_id]
             /\ UNCHANGED <<clock, nz>>

\* POST /scrape
StartScraping(data) ==
    LET job_id == next_id + 1
    IN  IF data.business_name \in {Absent, ""}
        THEN /\ response' = [op |-> "scrape", code |-> 400, job_id |-> 0]
             /\ UNCHANGED <<scraping_jobs, results, statistics, thread, next_id, clock, nz>>
        ELSE IF Absent \in {data.business_url, data.google_maps_url, data.trustpilot_url}
        THEN \* data['business_url'] etc. raise KeyError, answered by the outer handler
             /\ response' = [op |-> "scrape", code |-> 500, job_id |-> 0]
             /\ UNCHANGED <<scraping_jobs, results, statistics, thread, next_id, clock, nz>>
        ELSE /\ next_id < MaxJobs
             /\ next_id' = job_id
             /\ scraping_jobs' = Put(scraping_jobs, job_id, NewJob(data.business_name, clock, job_id))
             /\ results' = Put(results, job_id, EmptyResults)
             /\ statistics' = Put(statistics, job_id, EmptyStatistics)
             /\ thread' = Put(thread, job_id,
                              NewThread(data.business_name, data.business_url,
                                        data.google_maps_url, data.trustpilot_url))
             /\ response' = [op |-> "scrape", code |-> 200, job_id |-> job_id]
             /\ UNCHANGED <<clock, nz>>

\* GET /status/<job_id> that answers for an unknown id with a default record
GetJobStatus_Default(job_id) ==
    /\ response' =
          IF job_id \notin DOMAIN scraping_jobs
          THEN [op |-> "status", code |-> 200, job_id |-> job_id,
                status |-> "running", progress |-> 0,
                statistics |-> EmptyStatistics, error |-> "None"]
          ELSE LET job == scraping_jobs[job_id]
               IN  [op |-> "status", code |-> 200, job_id |-> job_id,
                    status |-> job.status, progress |-> job.progress,
                    statistics |-> statistics[job.statistics],
                    error |-> IF "error" \in job.keys THEN job.error ELSE "None"]
    /\ UNCHANGED <<scraping_jobs, results, statistics, thread, next_id, clock, nz>>

\* GET /status/<job_id>
GetJobStatus(job_id) ==
    /\ response' =
          IF job_id \notin DOMAIN scraping_jobs
          THEN [op |-> "status", code |-> 404, job_id |-> job_id]
          ELSE LET job == scraping_jobs[job_id]
               IN  [op |-> "status", code |-> 200, job_id |-> job_id,
                    status |-> job.status, progress |-> job.progress,
                    statistics |-> statistics[job.statistics],
                    error |-> IF "error" \in job.keys THEN job.error ELSE "None"]
    /\ UNCHANGED <<scraping_jobs, results, statistics, thread, next_id, clock, nz>>

\* GET /results/<job_id> without the check of the job's status
GetJobResults_Unchecked(job_id) ==
    /\ response' =
          IF job_id \notin DOMAIN scraping_jobs
          THEN [op |-> "results", code |-> 404, job_id |-> job_id]
          ELSE LET job == scraping_jobs[job_id]
               IN  [op |-> "results", code |-> 200, job_id |-> job_id,
                    status |-> job.status, total_reviews |-> job.total_reviews,
                    statistics |-> statistics[job.statistics],
                    results |-> results[job.results],
                    all_reviews |-> IF "all_reviews" \in job.keys THEN job.all_reviews ELSE <<>>]
    /\ UNCHANGED <<scraping_jobs, results, statistics, thread, next_id, clock, nz>>

\* GET /results/<job_id> that hands out the snapshot of every finished job
GetJobResults_Terminal(job_id) ==
    /\ response' =
          IF job_id \notin DOMAIN scraping_jobs
          THEN [op |-> "results", code |-> 404, job_id |-> job_id]
          ELSE LET job == scraping_jobs[job_id]
               IN  IF job.status \notin {"completed", "failed"}
                   THEN [op |-> "results", code |-> 400, job_id |-> job_id, status |-> job.status]
                   ELSE [op |-> "results", code |-> 200, job_id |-> job_id,
                         status |-> job.status, total_reviews |-> job.total_reviews,
                         statistics |-> statistics[job.statistics],
                         results |-> results[job.results],
                         all_reviews |-> IF "all_reviews" \in job.keys THEN job.all_reviews ELSE <<>>]
    /\ UNCHANGED <<scraping_jobs, results, statistics, thread, next_id, clock, nz>>

\* GET /results/<job_id>
GetJobResults(job_id) ==
    /\ response' =
          IF job_id \notin DOMAIN scraping_jobs
          THEN [op |-> "results", code |-> 404, job_id |-> job_id]
          ELSE LET job == scraping_jobs[job_id]
               IN  IF job.status # "completed"
                   THEN [op |-> "results", code |-> 400, job_id |-> job_id, status |-> job.status]
                   ELSE [op |-> "results", code |-> 200, job_id |-> job_id,
                         status |-> job.status, total_reviews |-> job.total_reviews,
                         statistics |-> statistics[job.statistics],
                         results |-> results[job.results],
                         all_reviews |-> IF "all_reviews" \in job.keys THEN job.all_reviews ELSE <<>>]
    /\ UNCHANGED <<scraping_jobs, results, statistics, thread, next_id, clock, nz>>

\* one entry of the list GET /jobs returns
JobSummary(job) ==
    [status |-> job.status, progress |-> job.progress, business_name |-> job.business_name,
     total_reviews |-> job.total_reviews, start_time |-> job.start_time,
     end_time |-> IF "end_time" \in job.keys THEN job.end_time ELSE -1]

\* a listing that drops the finished jobs from the table as it reports them
ListJobs_Pruning ==
    LET jobs2 == Remove(scraping_jobs,
                        {j \in DOMAIN scraping_jobs : scraping_jobs[j].status # "running"})
    IN  /\ response' = [op |-> "jobs", code |-> 200,
                        jobs |-> [j \in DOMAIN scraping_jobs |-> JobSummary(scraping_jobs[j])],
                        total_jobs |-> Cardinality(DOMAIN scraping_jobs)]
        /\ scraping_jobs' = jobs2
        /\ results' = Remove(results, DOMAIN results \ LiveRefs(jobs2, thread))
        /\ statistics' = Remove(statistics, DOMAIN statistics \ LiveRefs(jobs2, thread))
        /\ UNCHANGED <<thread, next_id, clock, nz>>

\* GET /jobs
ListJobs ==
    /\ response' = [op |-> "jobs", code |-> 200,
                    jobs |-> [j \in DOMAIN scraping_jobs |-> JobSummary(scraping_jobs[j])],
                    total_jobs |-> Cardinality(DOMAIN scraping_jobs)]
    /\ UNCHANGED <<scraping_jobs, results, statistics, thread, next_id, clock, nz>>

\* job.get('end_time', job.get('start_time'))
EndOrStartTime(job) == IF "end_time" \in job.keys THEN job.end_time ELSE job.start_time

\* POST /cleanup that selects by age alone, whatever the status
CleanupOldJobs_AnyStatus(max_age_hours) ==
    LET jobs_to_remove ==
            {j \in DOMAIN scraping_jobs :
                clock - EndOrStartTime(scraping_jobs[j]) > max_age_hours}
        jobs2 == Remove(scraping_jobs, jobs_to_remove)
    IN  /\ scraping_jobs' = jobs2
        /\ results' = Remove(results, DOMAIN results \ LiveRefs(jobs2, thread))
        /\ statistics' = Remove(statistics, DOMAIN statistics \ LiveRefs(jobs2, thread))
        /\ response' = NoResponse
        /\ UNCHANGED <<thread, next_id, clock, nz>>

\* POST /cleanup; its reply (the number removed and the number remaining) is
\* determined by the table before and after and is not kept
CleanupOldJobs(max_age_hours) ==
    LET jobs_to_remove ==
            {j \in DOMAIN scraping_jobs :
                /\ scraping_jobs[j].status \in {"completed", "failed"}
                /\ clock - EndOrStartTime(scraping_jobs[j]) > max_age_hours}
        jobs2 == Remove(scraping_jobs, jobs_to_remove)
    IN  /\ scraping_jobs' = jobs2
        /\ results' = Remove(results, DOMAIN results \ LiveRefs(jobs2, thread))
        /\ statistics' = Remove(statistics, DOMAIN statistics \ LiveRefs(jobs2, thread))
        /\ response' = NoResponse
        /\ UNCHANGED <<thread, next_id, clock, nz>>

\* time passes
Tick ==
    /\ clock < MaxTime
    /\ clock' = clock + 1
    /\ response' = NoResponse
    /\ UNCHANGED <<scraping_jobs, results, statistics, thread, next_id, nz>>

\* the reviews offered by the adapters while several jobs run side by side
ConcurrentReviews == {1, 2}

\* the locator combinations (business_url, google_maps_url, trustpilot_url) of
\* the jobs that run side by side
ConcurrentLocators == {<<"", "", "">>, <<"", "url", "">>, <<"url", "", "">>}

ConcurrentRequests ==
    {data \in ValidRequests :
        <<data.business_url, data.google_maps_url, data.trustpilot_url>> \in ConcurrentLocators}

\* the orchestrator with several jobs in flight; the names are interchangeable,
\* so the first job is given the first of them
Next ==
    \/ \E data \in ConcurrentRequests :
          (next_id = 0 => data.business_name = "Acme") /\ StartScraping(data)
    \/ \E t \in DOMAIN thread : ThreadStep(t, ConcurrentReviews, ConcurrentDescriptions)
    \/ \E max_age_hours \in 0..MaxTime : CleanupOldJobs(max_age_hours)
    \/ Tick

Spec == Init /\ [][Next]_vars

\* bodies without a usable business_name, sent at any time
NamelessRequests ==
    {data \in Requests : /\ data.business_name \in {Absent, ""}
                         /\ data.business_url = ""
                         /\ data.google_maps_url = ""
                         /\ data.trustpilot_url = ""}

\* the reviews offered to the one job that runs next to the polling handlers
SoloReviews == {1, 2, 3, 4}

\* one job alone, with every request shape, every review and the polling handlers
NextSolo ==
    \/ \E data \in Requests : next_id = 0 /\ data.business_name # "Beta" /\ StartScraping(data)
    \/ \E data \in NamelessRequests : StartScraping(data)
    \/ \E t \in DOMAIN thread : ThreadStep(t, SoloReviews, Descriptions)
    \/ \E job_id \in 1..MaxJobs : GetJobStatus(job_id)
    \/ \E job_id \in 1..MaxJobs : GetJobResults(job_id)
    \/ ListJobs
    \/ \E max_age_hours \in 0..MaxTime : CleanupOldJobs(max_age_hours)
    \/ Tick

SpecSolo == Init /\ [][NextSolo]_vars

\* ------------------------------------------------- one pipeline run, all reviews
\* a job with a Google and a Trustpilot locator, so that every review of the
\* table can be offered in the same stage and in a later one
DedupRequests ==
    {data \in ValidRequests : /\ data.business_name = "Acme"
                              /\ data.business_url = ""
                              /\ data.google_maps_url = "url"
                              /\ data.trustpilot_url = "url"}

NextDedup ==
    \/ \E data \in DedupRequests : next_id = 0 /\ StartScraping(data)
    \/ \E t \in DOMAIN thread : ThreadStep(t, Reviews, Descriptions)

SpecDedup == Init /\ [][NextDedup]_vars

\* ------------------------------------------------ the threads under fairness
\* the inputs of the jobs whose termination is examined: no locator at all (the
\* pipeline raises) or a Google locator (the pipeline runs a stage), one review
LiveLocators == {<<"", "", "">>, <<"", "url", "">>}

LiveRequests ==
    {data \in ValidRequests :
        <<data.business_url, data.google_maps_url, data.trustpilot_url>> \in LiveLocators}

LiveReviews == {1}

NextLive ==
    \/ \E data \in LiveRequests :
          (next_id = 0 => data.business_name = "Acme") /\ StartScraping(data)
    \/ \E t \in DOMAIN thread : ThreadStep(t, LiveReviews, ConcurrentDescriptions)
    \/ \E job_id \in 1..MaxJobs : GetJobStatus(job_id)
    \/ \E max_age_hours \in 0..MaxTime : CleanupOldJobs(max_age_hours)
    \/ Tick

\* a step of thread t that moves it on: every statement returns or raises, and
\* "for review in <list>" leaves the loop because the adapter's list is finite
ThreadAdvance(t) ==
    /\ t \in DOMAIN thread
    /\ \/ LookupBegin(t)
       \/ LookupNext(t)
       \/ GetDescription(t, ConcurrentDescriptions)
       \/ AdapterCall(t)
       \/ EndStage(t)
       \/ UpdateProgress(t)
       \/ SetProgress100(t)
       \/ SetTotalUnique(t)
       \/ SetTotalReviews(t)
       \/ SetCompleted(t)
       \/ SetEndTime(t)
       \/ ReturnResult(t)
       \/ UpdateJob(t)
       \/ HandleException(t)
       \/ SetError(t)

\* the threads are scheduled fairly
SpecLive == Init /\ [][NextLive]_vars /\ \A t \in 1..MaxJobs : WF_vars(ThreadAdvance(t))

\* ------------------------------------------- the normalizer on drawn inputs
InitNorm ==
    /\ scraping_jobs = <<>>
    /\ results = <<>>
    /\ statistics = <<>>
    /\ thread = <<>>
    /\ next_id = 0
    /\ clock = 0
    /\ response = NoResponse
    /\ nz \in {[step |-> "input", input |-> u, once |-> <<>>, twice |-> <<>>] : u \in URLInputs}

NormalizeOnce ==
    /\ nz.step = "input"
    /\ nz' = [nz EXCEPT !.step = "once", !.once = normalize_url(nz.input)]
    /\ UNCHANGED <<scraping_jobs, results, statistics, thread, next_id, clock, response>>

NormalizeTwice ==
    /\ nz.step = "once"
    /\ nz' = [nz EXCEPT !.step = "twice", !.twice = normalize_url(nz.once)]
    /\ UNCHANGED <<scraping_jobs, results, statistics, thread, next_id, clock, response>>

NextNorm == NormalizeOnce \/ NormalizeTwice

SpecNorm == InitNorm /\ [][NextNorm]_vars

\* ================================================================== claims
Jobs == DOMAIN scraping_jobs

Terminal == {"completed", "failed"}

\* results[google] + results[trustpilot] + ... of job j, as one sequence
RECURSIVE Concat(_, _)
Concat(buckets, k) ==
    IF k > Len(Sources) THEN <<>> ELSE buckets[Sources[k]] \o Concat(buckets, k + 1)

AllFindings(j) == Concat(results[scraping_jobs[j].results], 1)

\* a URL without one leading scheme, one leading www. and one trailing slash
StripOnce(u) ==
    LET a == IF StartsWith(u, HTTPS) THEN SubSeq(u, Len(HTTPS) + 1, Len(u))
             ELSE IF StartsWith(u, HTTP) THEN SubSeq(u, Len(HTTP) + 1, Len(u)) ELSE u
        b == IF StartsWith(a, WWW) THEN SubSeq(a, Len(WWW) + 1, Len(a)) ELSE a
    IN  IF EndsWith(b, SLASH) THEN SubSeq(b, 1, Len(b) - 1) ELSE b

\* the two reviews' URLs differ only in scheme, a leading www. or one trailing slash
DifferOnlyInDecoration(r1, r2) ==
    /\ ReviewUrl(r1) # <<>>
    /\ ReviewUrl(r2) # <<>>
    /\ StripOnce(ReviewUrl(r1)) = StripOnce(ReviewUrl(r2))

NoLocators(th) == th.business_url = "" /\ th.google_maps_url = "" /\ th.trustpilot_url = ""

\* C1: a job's status changes only running -> completed or running -> failed;
\* a completed or failed job never changes status
C1_StatusOnlyLeavesRunning ==
    [][\A j \in Jobs \cap DOMAIN scraping_jobs' :
          scraping_jobs'[j].status # scraping_jobs[j].status
              => /\ scraping_jobs[j].status = "running"
                 /\ scraping_jobs'[j].status \in Terminal]_vars

\* C2: the progress of a job never decreases
C2_ProgressNonDecreasing ==
    [][\A j \in Jobs \cap DOMAIN scraping_jobs' :
          scraping_jobs'[j].progress >= scraping_jobs[j].progress]_vars

\* C3: in every state a job's progress is 100 if and only if its status is completed
C3_Progress100IffCompleted ==
    \A j \in Jobs : (scraping_jobs[j].progress = 100) <=> (scraping_jobs[j].status = "completed")

\* C4: in every state every job's progress lies in 0..100
C4_ProgressInRange ==
    \A j \in Jobs : scraping_jobs[j].progress \in 0..100

\* C5: in every state statistics[s] of a job is the length of its results[s]
C5_CountsEqualLengths ==
    \A j \in Jobs : \A s \in SourceSet :
        statistics[scraping_jobs[j].statistics][s] = Len(results[scraping_jobs[j].results][s])

\* C6: no two distinct findings stored in one job's results have the same
\* non-empty normalized URL
C6_NoDuplicateUrlInJob ==
    \A j \in Jobs :
        LET all == AllFindings(j)
        IN  \A a, b \in 1..Len(all) :
                (a # b /\ NormalizedUrl(all[a]) # <<>>)
                    => NormalizedUrl(all[a]) # NormalizedUrl(all[b])

\* C7: normalizing an already normalized URL changes nothing
C7_NormalizeIdempotent ==
    nz.step = "twice" => nz.twice = nz.once

\* C8: of two findings whose URLs differ only in scheme, leading www. or one
\* trailing slash, a job stores at most the first
C8_DecoratedDuplicateRejected ==
    \A j \in Jobs :
        LET all == AllFindings(j)
        IN  \A a, b \in 1..Len(all) :
                a # b => ~DifferOnlyInDecoration(all[a], all[b])

\* C9: a job without any locator is never failed: its stages are skipped and it completes
C9_NoLocatorsNeverFails ==
    \A t \in DOMAIN thread :
        (t \in Jobs /\ thread[t].pc # "done" /\ NoLocators(thread[t]))
            => scraping_jobs[t].status # "failed"

\* C10: a request with a business name is accepted whichever optional fields it
\* omits: a running job is created and its job_id returned
C10_OptionalFieldsMayBeOmitted ==
    [][\A data \in Requests :
          (data.business_name \notin {Absent, ""} /\ StartScraping(data))
              => /\ response'.code = 200
                 /\ response'.job_id \in DOMAIN scraping_jobs'
                 /\ scraping_jobs'[response'.job_id].status = "running"]_vars

\* the step in which the adapter call of thread t raises
AdapterRaises(t) ==
    /\ t \in DOMAIN thread
    /\ thread[t].pc = "call"
    /\ thread'[t].pc \notin {"call", "loop"}

\* C11: when the adapter of an executed stage raises, the pipeline goes on to the
\* statement after the stage (it is not aborted, the job is not failed), and the
\* failed source of the job has no findings and count 0, as if the stage had been skipped
C11_AdapterFailureIsolated ==
    [][\A t \in DOMAIN thread :
          (AdapterRaises(t) /\ t \in Jobs)
              => /\ thread'[t].pc \in {"progress", "progress_100"}
                 /\ t \in DOMAIN scraping_jobs'
                 /\ scraping_jobs'[t].status = scraping_jobs[t].status
                 /\ results'[scraping_jobs'[t].results][Sources[thread[t].stage]] = <<>>
                 /\ statistics'[scraping_jobs'[t].statistics][Sources[thread[t].stage]] = 0]_vars

\* the step in which run_scraping's handler of thread t marks the job failed
MarksFailed(t) == thread[t].pc = "except" /\ thread'[t].pc = "except_error"

\* the step in which run_scraping's handler of thread t has recorded the error and ends
HandlerEnds(t) == thread[t].pc = "except_error" /\ thread'[t].pc = "done"

\* C12: when an exception escapes the pipeline, the handler leaves the job in the
\* table with status failed and the exception's message as its error, and the
\* findings accumulated so far stay in its results
C12_DriverErrorMarksFailed ==
    [][\A t \in DOMAIN thread :
          ((MarksFailed(t) \/ HandlerEnds(t)) /\ t \in Jobs)
              => /\ t \in DOMAIN scraping_jobs'
                 /\ scraping_jobs'[t].status = "failed"
                 /\ HandlerEnds(t) => /\ "error" \in scraping_jobs'[t].keys
                                      /\ scraping_jobs'[t].error = thread[t].exc
                 /\ scraping_jobs'[t].results = scraping_jobs[t].results
                 /\ results'[scraping_jobs'[t].results] = results[scraping_jobs[t].results]]_vars

\* C13: a successful reply of GET /results is a complete snapshot: all_reviews,
\* total_reviews, statistics.total_unique and the findings lists agree in number
C13_ResultsSnapshotComplete ==
    (response.op = "results" /\ response.code = 200)
        => /\ Len(response.all_reviews) = response.total_reviews
           /\ response.total_reviews = response.statistics["total_unique"]
           /\ response.total_reviews = Len(Concat(response.results, 1))

\* C14: asked for the results of a job that is running, GET /results answers with
\* the not-completed error, which carries the status and no findings and is not
\* the not-found answer
C14_RunningResultsRefused ==
    \A job_id \in Jobs :
        (/\ response.op = "results"
         /\ response.job_id = job_id
         /\ scraping_jobs[job_id].status = "running")
            => /\ response.code = 400
               /\ response.status = "running"
               /\ DOMAIN response \cap {"results", "all_reviews", "statistics"} = {}

C14_Witness ==
    /\ response.op = "results"
    /\ response.code = 400
    /\ response.job_id \in Jobs
    /\ scraping_jobs[response.job_id].status = "running"
    /\ results[scraping_jobs[response.job_id].results]["google"] # <<>>

\* the jobs cleanup(max_age) is to remove: completed or failed, and ended (or,
\* without an end time, started) more than max_age ago
Expired(max_age) ==
    {j \in Jobs :
        /\ scraping_jobs[j].status \in Terminal
        /\ LET ended == IF "end_time" \in scraping_jobs[j].keys
                        THEN scraping_jobs[j].end_time ELSE scraping_jobs[j].start_time
           IN  clock - ended > max_age}

C16_UnknownJobNotFound ==
    [][\A job_id \in 1..MaxJobs :
          (job_id \notin Jobs /\ (GetJobStatus(job_id) \/ GetJobResults(job_id)))
              => /\ response'.code = 404
                 /\ DOMAIN response' = {"op", "code", "job_id"}
                 /\ scraping_jobs' = scraping_jobs
                 /\ results' = results
                 /\ statistics' = statistics]_vars

\* job 1 was created and removed again, and a poll for it has been answered not-found
C16_Witness ==
    /\ next_id = 1
    /\ Jobs = {}
    /\ response.op \in {"status", "results"}
    /\ response.job_id = 1
    /\ response.code = 404

\* C17: POST /scrape without a business_name, or with an empty one, is answered
\* with the input error; no job is inserted and no thread is started
C17_MissingNameRejected ==
    [][response'.op = "scrape"
          => \A data \in Requests :
                 (data.business_name \in {Absent, ""} /\ StartScraping(data))
                     => /\ response'.code = 400
                        /\ scraping_jobs' = scraping_jobs
                        /\ thread' = thread
                        /\ next_id' = next_id
                        /\ results' = results
                        /\ statistics' = statistics]_vars

\* a request without a name has been refused while a job created earlier runs on
C17_Witness ==
    /\ response.op = "scrape"
    /\ response.code = 400
    /\ Jobs = {1}
    /\ scraping_jobs[1].status = "running"

\* C18: a successful POST /scrape inserts exactly one job, under an id that was
\* never in use, with status running, progress 0, six empty findings lists and
\* all counters 0; it returns that id before any step of the job's thread, and it
\* leaves the existing jobs and threads as they were
C18_CreateInsertsOneRunningJob ==
    [][(response'.op = "scrape" /\ response'.code = 200)
          => LET id == response'.job_id
             IN  /\ id \notin Jobs
                 /\ id \notin DOMAIN thread
                 /\ DOMAIN scraping_jobs' = Jobs \cup {id}
                 /\ scraping_jobs'[id].status = "running"
                 /\ scraping_jobs'[id].progress = 0
                 /\ scraping_jobs'[id].total_reviews = 0
                 /\ scraping_jobs'[id].keys = {}
                 /\ \A s \in SourceSet :
                        /\ results'[scraping_jobs'[id].results][s] = <<>>
                        /\ statistics'[scraping_jobs'[id].statistics][s] = 0
                 /\ statistics'[scraping_jobs'[id].statistics]["total_unique"] = 0
                 /\ thread'[id].pc = "start"
                 /\ \A j \in Jobs :
                        /\ scraping_jobs'[j] = scraping_jobs[j]
                        /\ results'[scraping_jobs[j].results] = results[scraping_jobs[j].results]
                        /\ statistics'[scraping_jobs[j].statistics] = statistics[scraping_jobs[j].statistics]
                 /\ \A t \in DOMAIN thread : thread'[t] = thread[t]]_vars

\* job 2 has just been created while job 1 is under way with findings stored
C18_Witness ==
    /\ response.op = "scrape"
    /\ response.code = 200
    /\ response.job_id = 2
    /\ Jobs = {1, 2}
    /\ scraping_jobs[1].progress > 0
    /\ results[scraping_jobs[1].results]["google"] # <<>>
    /\ scraping_jobs[2].status = "running"

\* C19: for every business name at most one job of that name is running
C19_OneRunningJobPerName ==
    \A j1, j2 \in Jobs :
        (/\ scraping_jobs[j1].status = "running"
         /\ scraping_jobs[j2].status = "running"
         /\ scraping_jobs[j1].business_name = scraping_jobs[j2].business_name)
            => j1 = j2

\* C20: a step that changes a job's record, its findings or its counts is a step
\* of the thread started for that job
C20_OnlyOwnThreadWrites ==
    [][\A j \in Jobs \cap DOMAIN scraping_jobs' :
          (\/ scraping_jobs'[j] # scraping_jobs[j]
           \/ results'[scraping_jobs'[j].results] # results[scraping_jobs[j].results]
           \/ statistics'[scraping_jobs'[j].statistics] # statistics[scraping_jobs[j].statistics])
              => thread'[j] # thread[j]]_vars

\* C21: no results container and no statistics container (hence no finding) is
\* reachable from the records of two different jobs
C21_ContainersNotShared ==
    \A j1, j2 \in Jobs :
        j1 # j2 => /\ scraping_jobs[j1].results # scraping_jobs[j2].results
                   /\ scraping_jobs[j1].statistics # scraping_jobs[j2].statistics

\* C22: every job that is created eventually has status completed or failed
\* (or, having had it, has been removed by cleanup)
C22_EveryJobTerminates ==
    \A j \in 1..MaxJobs :
        (j \in Jobs) ~> (j \notin Jobs \/ scraping_jobs[j].status \in Terminal)

\* two jobs of one name have both ended, one of them failed, and their threads are gone
C22_Witness ==
    /\ Jobs = {1, 2}
    /\ scraping_jobs[1].business_name = scraping_jobs[2].business_name
    /\ \A j \in Jobs : scraping_jobs[j].status \in Terminal /\ thread[j].pc = "done"
    /\ \E j \in Jobs : scraping_jobs[j].status = "failed"

\* the duplicate rule: the key is already admitted, or the id is non-empty and
\* already admitted
IsDuplicateByRule(th, r) ==
    \/ NormalizedUrl(r) \in th.all_urls
    \/ ReviewId(r) # "" /\ ReviewId(r) \in th.all_review_ids

\* C23: inside a stage loop a finding is refused exactly when the duplicate rule
\* says so; a finding with an empty id and a new URL is admitted
C23_RejectedIffDuplicate ==
    \A t \in DOMAIN thread : \A r \in Reviews :
        thread[t].pc = "loop" => (Admits(thread[t], r) <=> ~IsDuplicateByRule(thread[t], r))

\* C24: a completed job's statistics.total_unique and total_reviews equal the
\* number of findings stored in its six results lists
C24_CompletedTotalsMatch ==
    \A j \in Jobs :
        scraping_jobs[j].status = "completed"
            => /\ statistics[scraping_jobs[j].statistics]["total_unique"] = Len(AllFindings(j))
               /\ scraping_jobs[j].total_reviews = Len(AllFindings(j))

\* the reference normalization: lower-case, remove one leading scheme, one
\* leading www., one trailing slash, and keep what precedes the first ?
NormalizeReference(url) ==
    IF url = <<>> THEN <<>>
    ELSE LET u0 == Lower(url)
             u1 == IF StartsWith(u0, HTTPS) THEN SubSeq(u0, Len(HTTPS) + 1, Len(u0))
                   ELSE IF StartsWith(u0, HTTP) THEN SubSeq(u0, Len(HTTP) + 1, Len(u0))
                   ELSE u0
             u2 == IF StartsWith(u1, WWW) THEN SubSeq(u1, Len(WWW) + 1, Len(u1)) ELSE u1
             u3 == IF EndsWith(u2, SLASH) THEN SubSeq(u2, 1, Len(u2) - 1) ELSE u2
         IN  IF Contains(u3, "?") THEN BeforeFirst(u3, "?") ELSE u3

\* C25: normalize_url returns the reference result for every input
C25_NormalizeMatchesReference ==
    nz.step \in {"once", "twice"} => nz.once = NormalizeReference(nz.input)

\* the findings a pipeline run has admitted whose normalized URL is empty
EmptyUrlAdmitted(th) ==
    {i \in 1..Len(th.all_reviews) : NormalizedUrl(th.all_reviews[i]) = <<>>}

\* C26: a pipeline run admits at most one finding whose normalized URL is empty:
\* after the first, every finding with an empty normalized URL is refused
C26_OneEmptyUrlPerRun ==
    \A t \in DOMAIN thread :
        /\ Cardinality(EmptyUrlAdmitted(thread[t])) <= 1
        /\ (thread[t].pc = "loop" /\ EmptyUrlAdmitted(thread[t]) # {})
               => \A r \in Reviews : NormalizedUrl(r) = <<>> => ~Admits(thread[t], r)

\* in its second stage, a run that admitted an empty-URL finding in the first
\* stage goes on admitting other findings
C26_Witness ==
    \E t \in DOMAIN thread :
        /\ thread[t].pc = "loop"
        /\ thread[t].stage = 2
        /\ Len(thread[t].all_reviews) >= 2
        /\ NormalizedUrl(thread[t].all_reviews[1]) = <<>>
        /\ t \in Jobs
        /\ Len(results[scraping_jobs[t].results]["google"]) = 1

\* the stage thread t has behind it: that of the progress update it stands at, or none
StageBehind(t) == IF thread[t].pc = "progress" THEN thread[t].stage ELSE 0

\* C27: a thread invokes the adapters one after another in the order of Sources:
\* an adapter call begins only after the lookup, the description or the update
\* that follows an earlier stage, it belongs to a later stage than every stage
\* before, every stage passed over has no locator, and until the stage is over
\* (returned and looped, or raised) the thread begins nothing else
C27_StagesInOrder ==
    [][\A t \in DOMAIN thread :
          /\ (thread'[t].pc = "call" /\ thread[t].pc # "call")
                 => /\ thread[t].pc \in {"lookup", "describe", "progress"}
                    /\ thread'[t].stage > StageBehind(t)
                    /\ \A k \in (StageBehind(t) + 1)..(thread'[t].stage - 1) :
                           StageLocator(thread[t], k) = ""
          /\ (thread[t].pc \in {"call", "loop"} /\ thread'[t] # thread[t])
                 => /\ thread'[t].pc \in {"loop", "progress", "progress_100"}
                    /\ thread'[t].stage = thread[t].stage
                    /\ thread'[t].pc = "loop" => thread[t].pc = "call" \/ thread[t].pc = "loop"]_vars

\* the Internet adapter is about to be invoked after the five stages before it ran
C27_Witness ==
    \E t \in DOMAIN thread :
        /\ thread[t].pc = "call"
        /\ thread[t].stage = 6
        /\ thread[t].google_maps_url = "url"
        /\ thread[t].trustpilot_url = "url"
        /\ t \in Jobs
        /\ scraping_jobs[t].progress = 83

\* the stages thread t passes in this step without invoking their adapter
SkippedStages(t) ==
    IF /\ thread[t].pc \in {"lookup", "describe", "progress"}
       /\ thread'[t].pc \in {"call", "progress", "progress_100"}
       /\ thread'[t] # thread[t]
    THEN (StageBehind(t) + 1)..(thread'[t].stage - (IF thread'[t].pc = "call" THEN 1 ELSE 0))
    ELSE {}

\* C28: the adapter of a stage is invoked only when the locator of the stage is
\* set, a stage is passed without its adapter only when its locator is empty, and
\* a source whose stage the job skips has no findings and count 0 in the job
C28_InvokedIffLocator ==
    [][\A t \in DOMAIN thread :
          /\ thread'[t].pc = "call" => StageLocator(thread'[t], thread'[t].stage) # ""
          /\ \A k \in SkippedStages(t) : StageLocator(thread[t], k) = ""
          /\ (t \in DOMAIN scraping_jobs' /\ thread'[t].pc # "done")
                 => \A k \in 1..6 :
                        StageLocator(thread'[t], k) = ""
                            => /\ results'[scraping_jobs'[t].results][Sources[k]] = <<>>
                               /\ statistics'[scraping_jobs'[t].statistics][Sources[k]] = 0]_vars

\* C29: the write that follows the k-th stage of a job (k = 1..6) sets the job's
\* progress to floor(100 * k / total), total being 6 minus the stages skipped
\* for a missing locator (stated for the jobs where total is not 0)
C29_ProgressAfterStage ==
    [][\A t \in DOMAIN thread :
          (/\ thread[t].pc \in {"progress", "progress_100"}
           /\ thread'[t] # thread[t]
           /\ t \in Jobs
           /\ TotalSteps(thread[t]) > 0)
              => /\ t \in DOMAIN scraping_jobs'
                 /\ scraping_jobs'[t].progress =
                        (100 * thread[t].stage) \div TotalSteps(thread[t])]_vars

\* C30: a job whose status is completed or failed is not written again: a step
\* leaves its record, its results and its statistics as they are, or removes the job
C30_TerminalJobImmutable ==
    [][\A j \in Jobs :
          scraping_jobs[j].status \in Terminal
              => \/ j \notin DOMAIN scraping_jobs'
                 \/ /\ scraping_jobs'[j] = scraping_jobs[j]
                    /\ results'[scraping_jobs'[j].results] = results[scraping_jobs[j].results]
                    /\ statistics'[scraping_jobs'[j].statistics] =
                           statistics[scraping_jobs[j].statistics]]_vars

\* C31: a job record has the key error only if its status is failed
C31_ErrorOnlyWhenFailed ==
    \A j \in Jobs : "error" \in scraping_jobs[j].keys => scraping_jobs[j].status = "failed"

\* C32: the step of the description extractor, failed or not, goes on to the
\* first stage with a description and leaves the job table alone; after a
\* failure no stage with a locator is passed over; and the extractor is entered
\* only from the lookup, with a business_url, and not a second time in one run
C32_DescriptionFailureNotFatal ==
    [][\A t \in DOMAIN thread :
          /\ (thread[t].pc = "describe" /\ thread'[t] # thread[t])
                 => /\ thread'[t].pc \in {"call", "progress"}
                    /\ thread'[t].stage = 1
                    /\ thread'[t].description \in Descriptions
                    /\ scraping_jobs' = scraping_jobs
          /\ thread[t].description = "fallback"
                 => \A k \in SkippedStages(t) : StageLocator(thread[t], k) = ""
          /\ (thread'[t].pc = "describe" /\ thread[t].pc # "describe")
                 => /\ thread[t].pc = "lookup"
                    /\ thread[t].business_url # ""
                    /\ thread[t].description = ""]_vars

\* after a failure of the extractor the pipeline has reached its last stage and
\* the job is still running
C32_Witness ==
    \E t \in DOMAIN thread :
        /\ thread[t].description = "fallback"
        /\ thread[t].pc = "call"
        /\ thread[t].stage = 6
        /\ t \in Jobs
        /\ scraping_jobs[t].status = "running"

\* the job-wide sequence of job j as a reader gets it: job.get('all_reviews', [])
JobAllReviews(j) ==
    IF "all_reviews" \in scraping_jobs[j].keys THEN scraping_jobs[j].all_reviews ELSE <<>>

\* C33: the all_reviews of a completed job is the concatenation of its six
\* findings lists in the order of Sources, and no finding occurs twice in it
C33_AllReviewsIsConcatenation ==
    \A j \in Jobs :
        scraping_jobs[j].status = "completed"
            => /\ JobAllReviews(j) = AllFindings(j)
               /\ \A a, b \in 1..Len(JobAllReviews(j)) :
                      JobAllReviews(j)[a] = JobAllReviews(j)[b] => a = b

\* C34: a step that answers GET /status, GET /results or GET /jobs, for any
\* job_id and in any state, leaves the job table and every job's findings and
\* counts unchanged
C34_ReadsArePure ==
    [][response'.op \in {"status", "results", "jobs"}
          => UNCHANGED <<scraping_jobs, results, statistics>>]_vars

\* the list of jobs was read while a completed job with a finding is in the table
C34_Witness ==
    /\ response.op = "jobs"
    /\ response.total_jobs = 1
    /\ 1 \in Jobs
    /\ scraping_jobs[1].status = "completed"
    /\ Len(AllFindings(1)) > 0

\* C35: GET /results for a job in the table answers with the snapshot only when
\* the job's status is completed; for a failed job, as for a running one, the
\* answer is the not-completed error with the status and without findings
C35_FailedResultsRefused ==
    [][\A job_id \in Jobs :
          (response'.op = "results" /\ response'.job_id = job_id /\ response' # response)
              => IF scraping_jobs[job_id].status = "completed"
                 THEN response'.code = 200
                 ELSE /\ response'.code = 400
                      /\ response'.status = scraping_jobs[job_id].status
                      /\ DOMAIN response' \cap {"results", "all_reviews", "statistics"} = {}]_vars

\* the results of a failed job were asked for and refused
C35_Witness ==
    /\ response.op = "results"
    /\ response.code = 400
    /\ response.job_id \in Jobs
    /\ scraping_jobs[response.job_id].status = "failed"
    /\ response.status = "failed"
    /\ "error" \in scraping_jobs[response.job_id].keys

\* C36: the findings a pipeline run has admitted have pairwise different
\* id_review, the empty id included: at most one of them has an empty id
C36_OneFindingPerId ==
    \A t \in DOMAIN thread :
        \A a, b \in 1..Len(thread[t].all_reviews) :
            ReviewId(thread[t].all_reviews[a]) = ReviewId(thread[t].all_reviews[b]) => a = b

\* a run admitted a finding with an empty id in its first stage, goes on
\* admitting in its second, and a finding with an empty id and a new URL is on offer
C36_Witness ==
    \E t \in DOMAIN thread :
        /\ thread[t].pc = "loop"
        /\ thread[t].stage = 2
        /\ Len(thread[t].all_reviews) >= 2
        /\ "" \in thread[t].all_review_ids
        /\ \E r \in Reviews : /\ ReviewId(r) = ""
                              /\ NormalizedUrl(r) \notin thread[t].all_urls
                              /\ ~Admits(thread[t], r)

\* no other job in the table is running under the business name of thread t
NameUnique(t) ==
    \A j \in Jobs \ {t} :
        ~(scraping_jobs[j].status = "running"
          /\ scraping_jobs[j].business_name = thread[t].business_name)

\* C37: the lookup of a thread whose business name no other running job has
\* selects the thread's own job: it ends with the id given to the creator, not
\* with another id and not without one
C37_UniqueNameSelectsOwnJob ==
    [][\A t \in DOMAIN thread :
          (thread[t].pc = "lookup" /\ thread'[t].pc # "lookup" /\ NameUnique(t))
              => /\ thread'[t].job_id = t
                 /\ thread'[t].pc # "except"]_vars

\* C38: a job whose status is completed has an end_time, and a job whose status
\* is running has none
C38_EndTimeWithCompleted ==
    \A j \in Jobs :
        /\ scraping_jobs[j].status = "completed" => "end_time" \in scraping_jobs[j].keys
        /\ scraping_jobs[j].status = "running" => "end_time" \notin scraping_jobs[j].keys

\* a step of thread t inside a stage: the adapter call, one turn of the loop
\* over its findings, or the count written at the end of the loop
StageStep(t) == thread[t].pc \in {"call", "loop"} /\ thread'[t] # thread[t]

\* C39: a step of the stage for source s changes nothing but the findings list
\* and the count of s in the job the thread writes to: no field of a job record,
\* no list or count of another source, and nothing of a job with another name
C39_StageWritesOwnSourceOnly ==
    [][\A t \in DOMAIN thread :
          StageStep(t)
              => LET th == thread[t]
                     s == Sources[th.stage]
                 IN  /\ scraping_jobs' = scraping_jobs
                     /\ DOMAIN results' = DOMAIN results
                     /\ DOMAIN statistics' = DOMAIN statistics
                     /\ \A ref \in DOMAIN results : \A x \in DOMAIN results[ref] :
                            results'[ref][x] # results[ref][x]
                                => /\ x = s
                                   /\ th.job_id \in Jobs
                                   /\ ref = scraping_jobs[th.job_id].results
                     /\ \A ref \in DOMAIN statistics : \A x \in DOMAIN statistics[ref] :
                            statistics'[ref][x] # statistics[ref][x]
                                => /\ x = s
                                   /\ th.job_id \in Jobs
                                   /\ ref = scraping_jobs[th.job_id].statistics
                     /\ \A j \in Jobs :
                            scraping_jobs[j].business_name # th.business_name
                                => /\ results'[scraping_jobs[j].results] =
                                          results[scraping_jobs[j].results]
                                   /\ statistics'[scraping_jobs[j].statistics] =
                                          statistics[scraping_jobs[j].statistics]]_vars

\* a thread has counted a finding of its Reddit stage into its job while a job
\* with another name, untouched, is running
C39_Witness ==
    \E t \in Jobs : \E j \in Jobs :
        /\ t \in DOMAIN thread
        /\ thread[t].job_id = t
        /\ thread[t].pc = "progress"
        /\ thread[t].stage = 3
        /\ statistics[scraping_jobs[t].statistics]["reddit"] = 1
        /\ scraping_jobs[j].business_name # scraping_jobs[t].business_name
        /\ scraping_jobs[j].status = "running"
        /\ Len(AllFindings(j)) = 0

\* C40: a job_id that was given out and is no longer in the job table does not
\* come back into it, whatever the threads still do
C40_RemovedJobStaysRemoved ==
    [][\A j \in 1..MaxJobs : (j <= next_id /\ j \notin Jobs) => j \notin DOMAIN scraping_jobs']_vars

\* cleanup removed a job whose thread was still writing: the thread found its
\* record gone
C40_Witness ==
    \E t \in DOMAIN thread :
        /\ t \notin Jobs
        /\ thread[t].pc = "except"
        /\ thread[t].exc = "KeyError"
====
